---- MODULE Spec2Model ----
(***************************************************************************)
(* Mindmap editor of architectural-rag: the project page (ProjectMapPage)  *)
(* holds the domain graph, resolves which nodes and edges are visible      *)
(* (filters + collapse) and feeds them to the canvas (MindmapCanvas),      *)
(* which reconciles them with the scene it renders and relays gestures.    *)
(*                                                                         *)
(* Three specifications share the variables:                               *)
(*   Spec        host page + canvas + backend requests in flight           *)
(*   SpecResolve the visibility resolver over all small graphs             *)
(*   SpecBfs     getDescendants, one iteration of its while loop per step  *)
(*                                                                         *)
(* Conventions.  Node ids are 1..n.  A node array is a function from the   *)
(* ids present to the node's fields, array order being id order.  An edge  *)
(* array is a set of <<source, target>> pairs, array order being the       *)
(* lexicographic order.  A coordinate is an integer number of half units,  *)
(* so 1 stands for 0.5 and 2 for 1.0.                                      *)
(***************************************************************************)
EXTENDS Bags, FiniteSets, Integers, Sequences, TLC

\* ------------------------------------------------------------ bounds ----
NumNodes == 2          \* nodes of the project in Spec
MaxCoord == 2          \* coordinates 0, 0.5, 1.0 in Spec
MaxMoves == 1          \* pointer moves within one drag
MaxViewOps == 2        \* filter and collapse gestures in one behaviour of SpecResolve
MaxEdges == 3          \* edges of a graph in SpecResolve and SpecBfs
MaxLen == 2            \* characters of a label or of an edit buffer in SpecRelabel
MaxHandlers == 2       \* edge retargets and node creations started in SpecMutate
MaxTimers == 4         \* debounce timers started in one behaviour of SpecAutoRag

\* One behaviour of Spec holds at most one edit of a status, phase or
\* category, one drag and two gestures of selection, menu, filter or
\* collapse: each further one multiplies the interleavings of the requests
\* in flight beyond what is explored in minutes.
GestureBudget == [edits |-> 1, drags |-> 1, moves |-> 0, views |-> 2]

NodeIds == 1..NumNodes
Coord == 0..MaxCoord
Positions == {<<x, 0>> : x \in Coord}     \* drags along one axis
ResolveIds == {1, 2, 3, 4}                \* ids in SpecResolve and SpecBfs

\* two values of each vocabulary are enough to tell a change from no change
Labels == {"L1", "L2"}
Statuses == {"S1", "S2"}
PHASES == {"P1", "P2"}
CATEGORIES == {"C1", "C2"}

CATEGORY_COLORS == [c \in CATEGORIES |-> IF c = "C1" THEN "#ef4444" ELSE "#3b82f6"]
DefaultColor == "#6b7280"

NoNode == 0            \* selectedNodeId === null, contextMenu.targetId absent

\* --------------------------------------------------- small utilities ----
Min(S) == CHOOSE x \in S : \A y \in S : x <= y

RECURSIVE SortedSeq(_)
SortedSeq(S) == IF S = {} THEN << >> ELSE <<Min(S)>> \o SortedSeq(S \ {Min(S)})

Range(s) == {s[i] : i \in DOMAIN s}

\* Math.round of the coordinate h/2: floor(h/2 + 1/2)
Round(h) == (h + 1) \div 2

\* ------------------------------------------- graph visibility resolver ----
\* adjacency: source -> targets, built from every edge of the project
Adjacency(edges) ==
    [s \in {e[1] : e \in edges} |-> SortedSeq({e[2] : e \in {f \in edges : f[1] = s}})]

\* adjacency.get(current) || []
Children(adj, current) == IF current \in DOMAIN adj THEN adj[current] ELSE << >>

\* the loop body without the visited-set guard
VisitChildUnguarded(st, child) ==
    [queue |-> Append(st.queue, child),
     descendants |-> st.descendants \cup {child},
     added |-> Append(st.added, child)]

\* the body of `for (const child of children)`: add and enqueue an unseen child
VisitChild(st, child) ==
    IF child \notin st.descendants
    THEN [queue |-> Append(st.queue, child),
          descendants |-> st.descendants \cup {child},
          added |-> Append(st.added, child)]
    ELSE st

RECURSIVE VisitChildren(_, _)
VisitChildren(st, children) ==
    IF children = << >> THEN st
    ELSE VisitChildren(VisitChild(st, Head(children)), Tail(children))

\* one iteration of `while (queue.length > 0)`
BfsIter(adj, st) ==
    VisitChildren([st EXCEPT !.queue = Tail(st.queue)], Children(adj, Head(st.queue)))

\* a traversal that takes the root for visited from the start
BfsStartWithRoot(rootId) ==
    [queue |-> <<rootId>>, descendants |-> {rootId}, added |-> <<rootId>>]

BfsStart(rootId) == [queue |-> <<rootId>>, descendants |-> {}, added |-> << >>]

RECURSIVE BfsLoop(_, _)
BfsLoop(adj, st) == IF st.queue = << >> THEN st ELSE BfsLoop(adj, BfsIter(adj, st))

GetDescendants(adj, rootId) == BfsLoop(adj, BfsStart(rootId)).descendants

\* hiding the direct children of the collapsed ids only
HiddenNodeIdsDirect(edges, collapsed) ==
    {e[2] : e \in {f \in edges : f[1] \in collapsed}}

\* collapsedNodeIds.forEach: the union of the descendants of the collapsed ids
HiddenNodeIds(edges, collapsed) ==
    UNION {GetDescendants(Adjacency(edges), c) : c \in collapsed}

DescendantCounts(edges, collapsed) ==
    [c \in collapsed |-> Cardinality(GetDescendants(Adjacency(edges), c))]

\* a node filter that lets a node pass on either filter
NodeVisibleEither(n, node, hidden, fPhases, fCategories) ==
    IF ~(node.phase \in fPhases) /\ ~(node.category \in fCategories) THEN FALSE
    ELSE IF n \in hidden THEN FALSE
    ELSE TRUE

\* activeNodes.filter
NodeVisible(n, node, hidden, fPhases, fCategories) ==
    IF ~(node.phase \in fPhases) \/ ~(node.category \in fCategories) THEN FALSE
    ELSE IF n \in hidden THEN FALSE
    ELSE TRUE

\* an edge filter that looks at the source only
EdgeVisibleSource(e, visibleNodeIds) == e[1] \in visibleNodeIds

\* activeEdges.filter
EdgeVisible(e, visibleNodeIds) == e[1] \in visibleNodeIds /\ e[2] \in visibleNodeIds

\* a resolver that walks the filtered graph: collapse sees only the edges
\* between nodes that pass the filters
ResolveFiltered(nodes, edges, collapsed, fPhases, fCategories) ==
    LET passing == {n \in DOMAIN nodes : nodes[n].phase \in fPhases
                                          /\ nodes[n].category \in fCategories}
        kept == {e \in edges : e[1] \in passing /\ e[2] \in passing}
        hidden == HiddenNodeIds(kept, collapsed)
        vis == {n \in DOMAIN nodes : NodeVisible(n, nodes[n], hidden, fPhases, fCategories)}
    IN [visibleNodes |-> vis,
        visibleEdges |-> {e \in edges : EdgeVisible(e, vis)},
        descendantCounts |-> DescendantCounts(kept, collapsed)]

\* the useMemo that yields { visibleNodes, visibleEdges, descendantCounts }
Resolve(nodes, edges, collapsed, fPhases, fCategories) ==
    LET hidden == HiddenNodeIds(edges, collapsed)
        vis == {n \in DOMAIN nodes : NodeVisible(n, nodes[n], hidden, fPhases, fCategories)}
    IN [visibleNodes |-> vis,
        visibleEdges |-> {e \in edges : EdgeVisible(e, vis)},
        descendantCounts |-> DescendantCounts(edges, collapsed)]

\* ------------------------------------------------------------- state ----
VARIABLES
    rev,               \* revision of ProjectMapPage: "page" (page.tsx) or "part005"
    srv,               \* backend store of the project: [nodes, edges]
    loads,             \* bag of loadProject fetches in flight
    puts,              \* bag of node PUT requests in flight
    project,           \* page state `project`: [loaded, nodes, edges]
    collapsedNodeIds,  \* page state
    filterPhases,      \* page state
    filterCategories,  \* page state
    selectedNodeId,    \* page state, NoNode for null
    contextMenu,       \* page state: targetId of the open node menu, NoNode if none
    view,              \* memo { visibleNodes, visibleEdges, descendantCounts }
    rfMemo,            \* canvas memo rfNodes with the dependencies it was built from
    scene,             \* canvas state `nodes` (useNodesState)
    isDragging,        \* isDraggingRef.current
    dragNode,          \* the node the pointer holds, NoNode if none
    intent,            \* the last onNodeDragStop emitted and what became of its PUT
    lastSync,          \* what the last run of the sync effect did
    budget,            \* gestures left: [edits, drags, moves, views]
    bfs,               \* SpecBfs: the loop state of getDescendants
    bfsIn,             \* SpecBfs: [edges, root] the traversal was started on
    editor,            \* SpecRelabel: a node component: [label, isEditMode, isEditing, editValue]
    selectedNodeIds,   \* page state of part_005: the ids ReactFlow reports as selected
    highlight,         \* SpecHighlight: [highlightedNodes, processNodes, data]
    rag,               \* SpecAutoRag: the useAutoRag hook with its timers and searches
    handlers,          \* SpecMutate: the async handlers started, each [kind, args, pc, calls]
    out                \* the last handler: [by, relabel (emitted), buffer (as found)]

vars == <<rev, srv, loads, puts, project, collapsedNodeIds, filterPhases,
          filterCategories, selectedNodeId, contextMenu, view, rfMemo, scene,
          isDragging, dragNode, intent, lastSync, budget, bfs, bfsIn, editor, handlers, out, rag, highlight,
          selectedNodeIds>>

netVars == <<srv, loads, puts>>
pageVars == <<project, collapsedNodeIds, filterPhases, filterCategories,
              selectedNodeId, contextMenu>>
canvasVars == <<view, rfMemo, scene, lastSync>>
dragVars == <<isDragging, dragNode, intent>>
bfsVars == <<bfs, bfsIn>>
editVars == <<editor, out>>
sideVars == <<bfsVars, editVars, handlers, rag, highlight, selectedNodeIds>>

\* --------------------------------------------------------- the canvas ----
\* categoryColors[pn.category] || '#6b7280'
Color(category) ==
    IF category \in DOMAIN CATEGORY_COLORS THEN CATEGORY_COLORS[category] ELSE DefaultColor

\* nodeIdsWithChildren: sources of allEdges when the page passes it, else of
\* the visible edges
NodeIdsWithChildren(processEdges, allEdges, hasAllEdges) ==
    IF hasAllEdges THEN {e[1] : e \in allEdges} ELSE {e[1] : e \in processEdges}

\* `${n.id}:${n.status}:${n.label}:${Math.round(x)}:${Math.round(y)}` joined
\* by '|'; the labels and statuses of the model hold neither ':' nor '|'
NodeFingerprint(processNodes) ==
    [n \in DOMAIN processNodes |->
        <<n, processNodes[n].status, processNodes[n].label,
          Round(processNodes[n].position[1]), Round(processNodes[n].position[2])>>]

\* processNodes.map(pn => ({ id, position, selected, data }))
BuildRfNodes(processNodes, selId, collapsed, counts, withChildren) ==
    [id \in DOMAIN processNodes |->
        [position |-> processNodes[id].position,
         selected |-> (id = selId),
         label |-> processNodes[id].label,
         phase |-> processNodes[id].phase,
         category |-> processNodes[id].category,
         status |-> processNodes[id].status,
         color |-> Color(processNodes[id].category),
         isSelected |-> (id = selId),
         collapsed |-> (id \in collapsed),
         hiddenDescendantCount |-> IF id \in DOMAIN counts THEN counts[id] ELSE -1,
         hasChildren |-> (id \in withChildren \/ id \in collapsed),
         onCollapseToggle |-> (id \in withChildren \/ id \in collapsed)]]

\* a page that hands the canvas memoised props
PropsIdentityStable == FALSE

\* Props that are new objects at every render of the page: the handlers
\* handleNodeCollapse, handleNodeLabelChange and handleAiAction are plain
\* closures, and descendantCounts is rebuilt with every new project.
PropsIdentityChanged == TRUE

\* the dependency list of the rfNodes memo
RfNodesDepsChanged(memo, fingerprint, selId, collapsed, counts, withChildren) ==
    \/ PropsIdentityChanged
    \/ memo.fingerprint # fingerprint
    \/ memo.selectedNodeId # selId
    \/ memo.collapsed # collapsed
    \/ memo.counts # counts
    \/ memo.withChildren # withChildren

\* a sync effect that leaves the scene alone during a drag
SyncNodesFrozen(nds, rfNodes, dragging) == IF dragging THEN nds ELSE rfNodes

\* the sync effect without its drag guard
SyncNodesOverwrite(nds, rfNodes, dragging) == rfNodes

\* the effect on [rfNodes]: setNodes(nds => rfNodes.map(...))
SyncNodes(nds, rfNodes, dragging) ==
    [id \in DOMAIN rfNodes |->
        IF dragging /\ id \in DOMAIN nds
        THEN [rfNodes[id] EXCEPT !.position = nds[id].position]
        ELSE rfNodes[id]]

EmptyMemo == [fingerprint |-> << >>, selectedNodeId |-> NoNode, collapsed |-> {},
              counts |-> << >>, withChildren |-> {}, value |-> << >>]

\* A render of the page and of the canvas below it, with the effects it
\* schedules.  The canvas is rendered once the first load has completed.
Render ==
    /\ view' = Resolve(project'.nodes, project'.edges, collapsedNodeIds',
                       filterPhases', filterCategories')
    /\ IF project'.loaded
       THEN LET pn == [n \in view'.visibleNodes |-> project'.nodes[n]]
                fp == NodeFingerprint(pn)
                wc == NodeIdsWithChildren(view'.visibleEdges, project'.edges,
                                          rev = "part005")
                changed == RfNodesDepsChanged(rfMemo, fp, selectedNodeId',
                               collapsedNodeIds', view'.descendantCounts, wc)
                rf == IF changed \/ ~project.loaded
                      THEN BuildRfNodes(pn, selectedNodeId', collapsedNodeIds',
                                        view'.descendantCounts, wc)
                      ELSE rfMemo.value
            IN /\ rfMemo' = [fingerprint |-> fp, selectedNodeId |-> selectedNodeId',
                             collapsed |-> collapsedNodeIds',
                             counts |-> view'.descendantCounts,
                             withChildren |-> wc, value |-> rf]
               /\ IF ~project.loaded
                  THEN /\ scene' = rf
                       /\ lastSync' = "mount"
                  ELSE IF changed
                  THEN /\ scene' = SyncNodes(scene, rf, isDragging')
                       /\ lastSync' = IF isDragging' THEN "preserve" ELSE "overwrite"
                  ELSE UNCHANGED <<scene, lastSync>>
       ELSE UNCHANGED <<rfMemo, scene, lastSync>>


\* ------------------------------------------------------ the backend ----
\* Project fetch returns the stored nodes and edges
ProjectFetch(store) == [nodes |-> store.nodes, edges |-> store.edges]

\* Node mutate persists the fields sent for one node
NodeMutate(store, put) ==
    [store EXCEPT !.nodes[put.node] =
        IF put.field = "position"
        THEN [@ EXCEPT !.position = put.p]
        ELSE [@ EXCEPT ![put.field] = put.s]]

NoData == [nodes |-> << >>, edges |-> {}]
SentLoad == [st |-> "sent", data |-> NoData]
One(x) == SetToBag({x})

\* a PUT /nodes/{id} with its body, as issued by handler `kind`
Put(kind, n, field, s, p) ==
    [kind |-> kind, node |-> n, field |-> field, s |-> s, p |-> p, st |-> "sent"]

\* the backend answers a load with the project as stored at that moment
ServeLoad ==
    /\ BagIn(SentLoad, loads)
    /\ loads' = (loads (-) One(SentLoad)) (+) One([st |-> "served", data |-> ProjectFetch(srv)])
    /\ UNCHANGED <<rev, srv, puts, pageVars, canvasVars, dragVars, budget, sideVars>>

\* the backend persists a PUT, answers it with an error status, or the
\* request is lost
ServePut(put, outcome) ==
    /\ BagIn(put, puts)
    /\ put.st = "sent"
    /\ puts' = (puts (-) One(put)) (+) One([put EXCEPT !.st = outcome])
    /\ srv' = IF outcome = "ok" THEN NodeMutate(srv, put) ELSE srv
    /\ UNCHANGED <<rev, loads, pageVars, canvasVars, dragVars, budget, sideVars>>

\* DELETE /nodes/{id}: the node goes, and with it every edge at it
NodeDelete(store, n) ==
    [nodes |-> [i \in DOMAIN store.nodes \ {n} |-> store.nodes[i]],
     edges |-> {e \in store.edges : e[1] # n /\ e[2] # n}]

\* ------------------------------------------------------------ the page ----
\* loadProject(false) up to its first await
LoadProject(bag) == bag (+) One(SentLoad)

\* loadProject after `await res.json()`: setProject(data)
LoadProjectDone(l) ==
    /\ BagIn(l, loads)
    /\ l.st = "served"
    /\ loads' = loads (-) One(l)
    /\ project' = [loaded |-> TRUE, nodes |-> l.data.nodes, edges |-> l.data.edges]
    /\ UNCHANGED <<rev, srv, puts, collapsedNodeIds, filterPhases, filterCategories,
                   selectedNodeId, contextMenu, dragVars, budget, sideVars>>
    /\ Render

\* setProject(prev => ({ ...prev, nodes: prev.nodes.map(n => n.id === nodeId ? ... : n) }))
Optimistic(proj, n, field, s, p) ==
    IF ~proj.loaded \/ n \notin DOMAIN proj.nodes THEN proj
    ELSE [proj EXCEPT !.nodes[n] =
            IF field = "position" THEN [@ EXCEPT !.position = p]
            ELSE [@ EXCEPT ![field] = s]]

Idle == project.loaded /\ ~isDragging /\ contextMenu = NoNode

Spend(kind) == budget' = [budget EXCEPT ![kind] = @ - 1]

\* handleStatusChange, from the detail panel of the selected node
HandleStatusChange(n, s) ==
    /\ Idle
    /\ budget.edits > 0
    /\ n = selectedNodeId
    /\ n \in DOMAIN project.nodes
    /\ s # project.nodes[n].status
    /\ puts' = puts (+) One(Put("status", n, "status", s, <<0, 0>>))
    /\ Spend("edits")
    /\ UNCHANGED <<rev, srv, loads, pageVars, canvasVars, dragVars, sideVars>>

\* handleNodeUpdate, from the phase and category selects of the detail panel
HandleNodeUpdate(n, field, s) ==
    /\ Idle
    /\ rev = "part005"
    /\ budget.edits > 0
    /\ n = selectedNodeId
    /\ n \in DOMAIN project.nodes
    /\ s # project.nodes[n][field]
    /\ project' = Optimistic(project, n, field, s, <<0, 0>>)
    /\ puts' = puts (+) One(Put("update", n, field, s, <<0, 0>>))
    /\ Spend("edits")
    /\ UNCHANGED <<rev, srv, loads, collapsedNodeIds, filterPhases, filterCategories,
                   selectedNodeId, contextMenu, dragVars, sideVars>>
    /\ Render

\* what a handler does once its awaited PUT has settled
AfterPut(put, resolved) ==
    CASE put.kind = "status" -> IF resolved THEN LoadProject(loads) ELSE loads
      [] put.kind = "update" -> LoadProject(loads)
      [] put.kind = "drag" ->
            IF ~resolved /\ rev = "part005" THEN LoadProject(loads) ELSE loads

\* the awaited fetch of a PUT resolves (any status) or rejects (network error)
PutSettled(put) ==
    /\ BagIn(put, puts)
    /\ put.st # "sent"
    /\ puts' = puts (-) One(put)
    /\ loads' = AfterPut(put, put.st # "error")
    /\ intent' = IF put.kind = "drag" /\ put.node = intent.node
                    /\ put.p = intent.position /\ intent.persist = "pending"
                 THEN [intent EXCEPT !.persist = IF put.st = "ok" THEN "accepted" ELSE "failed"]
                 ELSE intent
    /\ UNCHANGED <<rev, srv, pageVars, canvasVars, isDragging, dragNode, budget, sideVars>>

\* a collapse that keeps one node collapsed at a time
HandleNodeCollapseSingle(collapsed, n) ==
    IF n \in collapsed THEN collapsed \ {n} ELSE {n}

\* handleNodeCollapse
HandleNodeCollapse(collapsed, n) ==
    IF n \in collapsed THEN collapsed \ {n} ELSE collapsed \cup {n}

\* the collapse button of a rendered node (handleCollapseClick)
CollapseButton(n) ==
    /\ Idle
    /\ budget.views > 0
    /\ n \in DOMAIN scene
    /\ scene[n].hasChildren /\ scene[n].onCollapseToggle
    /\ collapsedNodeIds' = HandleNodeCollapse(collapsedNodeIds, n)
    /\ Spend("views")
    /\ UNCHANGED <<rev, netVars, project, filterPhases, filterCategories,
                   selectedNodeId, contextMenu, dragVars, sideVars>>
    /\ Render

\* handleNodeContextMenu
HandleNodeContextMenu(n) ==
    /\ Idle
    /\ budget.views > 0
    /\ n \in DOMAIN scene
    /\ contextMenu' = n
    /\ selectedNodeId' = n
    /\ Spend("views")
    /\ UNCHANGED <<rev, netVars, project, collapsedNodeIds, filterPhases,
                   filterCategories, dragVars, sideVars>>
    /\ Render

\* the collapse entry of the node menu of page.tsx, then onClose
MenuCollapse ==
    /\ rev = "page"
    /\ project.loaded /\ ~isDragging
    /\ contextMenu # NoNode
    /\ collapsedNodeIds' = HandleNodeCollapse(collapsedNodeIds, contextMenu)
    /\ contextMenu' = NoNode
    /\ UNCHANGED <<rev, netVars, project, filterPhases, filterCategories,
                   selectedNodeId, dragVars, budget, sideVars>>
    /\ Render

\* handleCloseContextMenu, on a click outside the menu
HandleCloseContextMenu ==
    /\ contextMenu # NoNode
    /\ contextMenu' = NoNode
    /\ UNCHANGED <<rev, netVars, project, collapsedNodeIds, filterPhases,
                   filterCategories, selectedNodeId, dragVars, budget, sideVars>>
    /\ Render

Toggle(S, x) == IF x \in S THEN S \ {x} ELSE S \cup {x}

\* togglePhase
TogglePhase(ph) ==
    /\ Idle
    /\ budget.views > 0
    /\ filterPhases' = Toggle(filterPhases, ph)
    /\ Spend("views")
    /\ UNCHANGED <<rev, netVars, project, collapsedNodeIds, filterCategories,
                   selectedNodeId, contextMenu, dragVars, sideVars>>
    /\ Render

\* toggleCategory
ToggleCategory(c) ==
    /\ Idle
    /\ budget.views > 0
    /\ filterCategories' = Toggle(filterCategories, c)
    /\ Spend("views")
    /\ UNCHANGED <<rev, netVars, project, collapsedNodeIds, filterPhases,
                   selectedNodeId, contextMenu, dragVars, sideVars>>
    /\ Render

\* onNodeClick -> onNodeSelect = setSelectedNodeId
OnNodeClick(n) ==
    /\ Idle
    /\ budget.views > 0
    /\ n \in DOMAIN scene
    /\ n # selectedNodeId
    /\ selectedNodeId' = n
    /\ Spend("views")
    /\ UNCHANGED <<rev, netVars, project, collapsedNodeIds, filterPhases,
                   filterCategories, contextMenu, dragVars, sideVars>>
    /\ Render

\* ------------------------------------------------------ drag gestures ----
NoIntent == [node |-> NoNode, position |-> <<0, 0>>, draggingAtEmit |-> FALSE,
             persist |-> "none"]

\* a drag start that leaves the flag alone
OnDragStartFlagless(n) ==
    /\ Idle
    /\ budget.drags > 0
    /\ n \in DOMAIN scene
    /\ isDragging' = isDragging
    /\ dragNode' = n
    /\ intent' = IF intent.node = n THEN NoIntent ELSE intent
    /\ budget' = [budget EXCEPT !.drags = @ - 1, !.moves = MaxMoves]
    /\ UNCHANGED <<rev, netVars, pageVars, canvasVars, sideVars>>

\* onDragStart
OnDragStart(n) ==
    /\ Idle
    /\ budget.drags > 0
    /\ n \in DOMAIN scene
    /\ isDragging' = TRUE
    /\ dragNode' = n
    /\ intent' = IF intent.node = n THEN NoIntent ELSE intent
    /\ budget' = [budget EXCEPT !.drags = @ - 1, !.moves = MaxMoves]
    /\ UNCHANGED <<rev, netVars, pageVars, canvasVars, sideVars>>

\* a pointer move of the drag: onNodesChange applies the position change
OnNodesChangePosition(p) ==
    /\ isDragging
    /\ dragNode \in DOMAIN scene
    /\ budget.moves > 0
    /\ p # scene[dragNode].position
    /\ scene' = [scene EXCEPT ![dragNode].position = p]
    /\ Spend("moves")
    /\ UNCHANGED <<rev, netVars, pageVars, view, rfMemo, lastSync, dragVars, sideVars>>

\* handleNodeDragStop of page.tsx: the PUT only
HandleNodeDragStopPage(n, p) ==
    /\ puts' = puts (+) One(Put("drag", n, "position", "", p))
    /\ UNCHANGED <<pageVars, canvasVars>>

\* handleNodeDragStop of part_005: optimistic update, then the PUT
HandleNodeDragStop(n, p) ==
    /\ project' = Optimistic(project, n, "position", "", p)
    /\ puts' = puts (+) One(Put("drag", n, "position", "", p))
    /\ UNCHANGED <<collapsedNodeIds, filterPhases, filterCategories,
                   selectedNodeId, contextMenu>>
    /\ Render

\* onDragStop: clear the flag, then emit onNodeDragStop(id, x, y)
OnDragStop ==
    /\ isDragging
    /\ dragNode \in DOMAIN scene
    /\ isDragging' = FALSE
    /\ dragNode' = NoNode
    /\ intent' = [node |-> dragNode, position |-> scene[dragNode].position,
                  draggingAtEmit |-> isDragging', persist |-> "pending"]
    /\ IF rev = "part005"
       THEN HandleNodeDragStop(dragNode, scene[dragNode].position)
       ELSE HandleNodeDragStopPage(dragNode, scene[dragNode].position)
    /\ UNCHANGED <<rev, srv, loads, budget, sideVars>>

\* ------------------------------------------------------ specification ----
InitNode(i) ==
    [label |-> "L1", phase |-> IF i % 2 = 1 THEN "P1" ELSE "P2",
     category |-> IF ((i - 1) \div 2) % 2 = 0 THEN "C1" ELSE "C2",
     status |-> "S1", position |-> <<1, 0>>]

NoProject == [loaded |-> FALSE, nodes |-> << >>, edges |-> {}]
NoBfs == [queue |-> << >>, descendants |-> {}, added |-> << >>]
NoBfsIn == [edges |-> {}, root |-> NoNode]

\* no node component under study, nothing emitted
NoEditor == [label |-> << >>, isEditMode |-> FALSE, isEditing |-> FALSE, editValue |-> << >>]
NoOut == [by |-> "none", relabel |-> << >>, buffer |-> << >>]
\* the hook before its first effect: useState(false), useRef(null) twice
NoContent == [id |-> NoNode, label |-> "", description |-> ""]
NoRag == [selectedNodeId |-> NoNode, nodes |-> << >>, edges |-> {},
          lastProcessedNode |-> NoContent,
          timeoutRef |-> 0, cleanup |-> FALSE, timers |-> {}, flying |-> {},
          isSearching |-> FALSE, called |-> << >>, n |-> 0]
NoHighlight == [highlightedNodes |-> {}, processNodes |-> {}, data |-> << >>]
EditUnused ==
    /\ editor = NoEditor /\ out = NoOut /\ handlers = << >>
    /\ rag = NoRag /\ highlight = NoHighlight /\ selectedNodeIds = {}

\* the page, the canvas and the backend out of the picture
PageUnused ==
    /\ rev = "part005"
    /\ srv = [nodes |-> << >>, edges |-> {}]
    /\ loads = EmptyBag
    /\ puts = EmptyBag
    /\ project = NoProject
    /\ collapsedNodeIds = {}
    /\ filterPhases = PHASES
    /\ filterCategories = CATEGORIES
    /\ selectedNodeId = NoNode
    /\ contextMenu = NoNode
    /\ view = Resolve(<< >>, {}, {}, PHASES, CATEGORIES)
    /\ rfMemo = EmptyMemo
    /\ scene = << >>
    /\ isDragging = FALSE
    /\ dragNode = NoNode
    /\ intent = NoIntent
    /\ lastSync = "none"
    /\ budget = [edits |-> 0, drags |-> 0, moves |-> 0, views |-> 0]
BfsUnused == bfs = NoBfs /\ bfsIn = NoBfsIn

\* the page as constructed: no project yet, the initial loadProject in flight
Init ==
    /\ rev \in {"page", "part005"}
    /\ srv = [nodes |-> [i \in NodeIds |-> InitNode(i)],
              edges |-> {<<i, i + 1>> : i \in 1..(NumNodes - 1)}]
    /\ loads = One(SentLoad)
    /\ puts = EmptyBag
    /\ project = NoProject
    /\ collapsedNodeIds = {}
    /\ filterPhases = PHASES
    /\ filterCategories = CATEGORIES
    /\ selectedNodeId = NoNode
    /\ contextMenu = NoNode
    /\ view = Resolve(<< >>, {}, {}, PHASES, CATEGORIES)
    /\ rfMemo = EmptyMemo
    /\ scene = << >>
    /\ isDragging = FALSE
    /\ dragNode = NoNode
    /\ intent = NoIntent
    /\ lastSync = "none"
    /\ budget = GestureBudget
    /\ bfs = NoBfs
    /\ bfsIn = NoBfsIn
    /\ EditUnused

Next ==
    \/ ServeLoad
    \/ \E l \in BagToSet(loads) : LoadProjectDone(l)
    \/ \E put \in BagToSet(puts), outcome \in {"ok", "rejected", "error"} : ServePut(put, outcome)
    \/ \E put \in BagToSet(puts) : PutSettled(put)
    \/ \E n \in NodeIds, s \in Statuses : HandleStatusChange(n, s)
    \/ \E n \in NodeIds, s \in PHASES : HandleNodeUpdate(n, "phase", s)
    \/ \E n \in NodeIds, s \in CATEGORIES : HandleNodeUpdate(n, "category", s)
    \/ \E n \in NodeIds : CollapseButton(n)
    \/ \E n \in NodeIds : HandleNodeContextMenu(n)
    \/ MenuCollapse
    \/ HandleCloseContextMenu
    \/ \E ph \in PHASES : TogglePhase(ph)
    \/ \E c \in CATEGORIES : ToggleCategory(c)
    \/ \E n \in NodeIds : OnNodeClick(n)
    \/ \E n \in NodeIds : OnDragStart(n)
    \/ \E p \in Positions : OnNodesChangePosition(p)
    \/ OnDragStop

Spec == Init /\ [][Next]_vars

TypeOK ==
    /\ rev \in {"page", "part005"}
    /\ isDragging \in BOOLEAN
    /\ selectedNodeId \in NodeIds \cup {NoNode}
    /\ DOMAIN scene \subseteq NodeIds

\* ------------------------------------------------- claims under Spec ----
PointerMoved == budget'.moves # budget.moves

\* C1: while the drag flag is set, no step but the pointer's own moves -- in
\* particular no reconciliation pass run for newly arrived domain data --
\* changes the on-screen position of a node that is already in the scene.
C1_DragKeepsPositions ==
    [][(isDragging /\ isDragging' /\ ~PointerMoved) =>
        \A n \in DOMAIN scene \cap DOMAIN scene' :
            scene'[n].position = scene[n].position]_vars

\* a reconciliation pass has run during a drag on incoming data whose
\* position for a scene node differs from the one on screen
C1_Witness ==
    /\ isDragging
    /\ lastSync = "preserve"
    /\ \E n \in DOMAIN scene :
          /\ n \in DOMAIN rfMemo.value
          /\ rfMemo.value[n].position # scene[n].position

\* C2: once the move intent of a drag has been emitted and its persist
\* accepted, the node is rendered at the drag-stop position until it is
\* moved again, whatever loadProject completes in between.
C2_DragStopPositionStays ==
    (rev = "part005" /\ intent.persist = "accepted" /\ intent.node \in DOMAIN scene)
        => scene[intent.node].position = intent.position

\* C3: the move intent is emitted while the drag state is still Dragging,
\* that is before the drag flag is cleared.
C3_IntentBeforeIdle ==
    intent.node # NoNode => intent.draggingAtEmit

SceneMatches(sn, pn) ==
    /\ sn.label = pn.label
    /\ sn.phase = pn.phase
    /\ sn.category = pn.category
    /\ sn.status = pn.status
    /\ sn.color = Color(pn.category)
    /\ sn.position = pn.position

\* C4: with the drag flag clear, a render with new domain data leaves every
\* scene node with the label, phase, category, status, color and position
\* of the domain node of the same id.
C4_SceneFollowsDomain ==
    [][(~isDragging' /\ project' # project) =>
        \A n \in DOMAIN scene' : SceneMatches(scene'[n], project'.nodes[n])]_vars

\* a change of the phase alone, or of the category alone, has been rendered
C4_Witness ==
    /\ ~isDragging
    /\ lastSync = "overwrite"
    /\ \E n \in DOMAIN scene :
          /\ project.nodes[n] # InitNode(n)
          /\ [project.nodes[n] EXCEPT !.phase = InitNode(n).phase,
                                      !.category = InitNode(n).category] = InitNode(n)
          /\ SceneMatches(scene[n], project.nodes[n])

HasOutgoing(edges, n) == \E e \in edges : e[1] = n

\* C9: toggleCollapse on a node without outgoing edges in the full edge set
\* leaves collapsedIds unchanged, by the button and by the node menu.
C9_LeafToggleIsNoOp ==
    [][\A n \in NodeIds :
        ((n \in collapsedNodeIds) # (n \in collapsedNodeIds'))
            => HasOutgoing(project.edges, n)]_vars

\* C18: a rendered node has hasChildren exactly when it is the source of an
\* edge of the full edge set of the project, whatever the filters and the
\* collapse state are.
C18_HasChildrenFromFullEdges ==
    \A n \in DOMAIN scene :
        scene[n].hasChildren <=> HasOutgoing(project.edges, n)

\* C21: the drag flag is set exactly while the pointer holds a node, that
\* is from a drag start to the next drag stop; no other step changes it; and
\* a reconciliation pass preserves positions iff the flag is set when it runs.
C21_FlagFollowsGesture ==
    /\ [](isDragging <=> dragNode # NoNode)
    /\ [][/\ (isDragging' # isDragging) => (dragNode' # dragNode)
          /\ (lastSync' # lastSync /\ lastSync' # "mount")
                => (lastSync' = "preserve" <=> isDragging')]_vars

\* a drag has started and stopped, and the pass run after the stop found
\* the flag clear
C21_Witness ==
    /\ ~isDragging
    /\ budget.drags < GestureBudget.drags
    /\ intent.node # NoNode
    /\ lastSync = "overwrite"

\* C22: when the persist of a move intent fails, by a network error or by
\* an error answer of the backend, the page issues a loadProject.
C22_FailedPersistRefetches ==
    [][(intent.persist = "pending" /\ intent'.persist = "failed")
          => CopiesIn(SentLoad, loads') = CopiesIn(SentLoad, loads) + 1]_vars

ResolvePairs == ResolveIds \X ResolveIds

RECURSIVE EdgeSetsUpTo(_)
EdgeSetsUpTo(k) ==
    IF k = 0 THEN {{}}
    ELSE LET smaller == EdgeSetsUpTo(k - 1)
         IN smaller \cup {E \cup {e} : E \in smaller, e \in ResolvePairs}

LastId == CHOOSE x \in ResolveIds : \A y \in ResolveIds : y <= x

\* The page of part_005 with a project loaded and rendered: any graph of
\* at most MaxEdges edges over the ids, the last id possibly without a node
\* (edges may then refer to it), nothing collapsed or filtered yet.
InitResolve ==
    /\ rev = "part005"
    /\ \E present \in {ResolveIds, ResolveIds \ {LastId}}, E \in EdgeSetsUpTo(MaxEdges) :
          srv = [nodes |-> [i \in present |-> InitNode(i)], edges |-> E]
    /\ loads = EmptyBag
    /\ puts = EmptyBag
    /\ project = [loaded |-> TRUE, nodes |-> srv.nodes, edges |-> srv.edges]
    /\ collapsedNodeIds = {}
    /\ filterPhases = PHASES
    /\ filterCategories = CATEGORIES
    /\ selectedNodeId = NoNode
    /\ contextMenu = NoNode
    /\ view = Resolve(project.nodes, project.edges, collapsedNodeIds, filterPhases,
                      filterCategories)
    /\ LET wc == NodeIdsWithChildren(view.visibleEdges, project.edges, TRUE)
           pn == [n \in view.visibleNodes |-> project.nodes[n]]
           rf == BuildRfNodes(pn, NoNode, collapsedNodeIds, view.descendantCounts, wc)
       IN /\ rfMemo = [fingerprint |-> NodeFingerprint(pn), selectedNodeId |-> NoNode,
                       collapsed |-> collapsedNodeIds, counts |-> view.descendantCounts,
                       withChildren |-> wc, value |-> rf]
          /\ scene = rf
    /\ isDragging = FALSE
    /\ dragNode = NoNode
    /\ intent = NoIntent
    /\ lastSync = "mount"
    /\ budget = [edits |-> 0, drags |-> 0, moves |-> 0, views |-> MaxViewOps]
    /\ bfs = NoBfs
    /\ bfsIn = NoBfsIn
    /\ EditUnused

NextResolve ==
    \/ \E n \in ResolveIds : CollapseButton(n)
    \/ \E ph \in PHASES : TogglePhase(ph)
    \/ \E c \in CATEGORIES : ToggleCategory(c)

SpecResolve == InitResolve /\ [][NextResolve]_vars

\* ----------------------------------------------------------- SpecBfs ----
\* getDescendants called on any graph and any root
InitBfs ==
    /\ rev = "part005"
    /\ srv = [nodes |-> << >>, edges |-> {}]
    /\ loads = EmptyBag
    /\ puts = EmptyBag
    /\ project = NoProject
    /\ collapsedNodeIds = {}
    /\ filterPhases = PHASES
    /\ filterCategories = CATEGORIES
    /\ selectedNodeId = NoNode
    /\ contextMenu = NoNode
    /\ view = Resolve(<< >>, {}, {}, PHASES, CATEGORIES)
    /\ rfMemo = EmptyMemo
    /\ scene = << >>
    /\ isDragging = FALSE
    /\ dragNode = NoNode
    /\ intent = NoIntent
    /\ lastSync = "none"
    /\ budget = [edits |-> 0, drags |-> 0, moves |-> 0, views |-> 0]
    /\ \E E \in EdgeSetsUpTo(MaxEdges), r \in ResolveIds :
          bfsIn = [edges |-> E, root |-> r]
    /\ bfs = BfsStart(bfsIn.root)
    /\ EditUnused

\* one iteration of the while loop of getDescendants
BfsStep ==
    /\ bfs.queue # << >>
    /\ bfs' = BfsIter(Adjacency(bfsIn.edges), bfs)
    /\ UNCHANGED <<rev, netVars, pageVars, canvasVars, dragVars, budget, bfsIn, editVars, handlers, rag, highlight, selectedNodeIds>>

NextBfs == BfsStep

SpecBfs == InitBfs /\ [][NextBfs]_vars

\* ------------------------------------------------ reachability, as sets ----
Successors(edges, S) == {e[2] : e \in {f \in edges : f[1] \in S}}

RECURSIVE Closure(_, _)
Closure(edges, S) ==
    LET T == S \cup Successors(edges, S)
    IN IF T = S THEN S ELSE Closure(edges, T)

\* the ids reachable from n by one or more edges
ReachPlus(edges, n) == Closure(edges, Successors(edges, {n}))

\* the ids a breadth-first traversal from n reaches, n included
Reach(edges, n) == Closure(edges, {n})

CollapsedSubtrees == UNION {ReachPlus(project.edges, c) : c \in collapsedNodeIds}

PassesFilters(n) ==
    /\ project.nodes[n].phase \in filterPhases
    /\ project.nodes[n].category \in filterCategories

\* ------------------------------------------ claims under SpecResolve ----
\* C5: an edge of the project is in visibleEdges iff its source and its
\* target are both ids of visible nodes; an edge with an end that is no node
\* is left out, and the resolver yields a result for it.
C5_EdgeVisibility ==
    /\ view.visibleEdges \subseteq project.edges
    /\ \A e \in project.edges :
          e \in view.visibleEdges <=>
              (e[1] \in view.visibleNodes /\ e[2] \in view.visibleNodes)
    /\ \A e \in project.edges :
          (e[1] \notin DOMAIN project.nodes \/ e[2] \notin DOMAIN project.nodes)
              => e \notin view.visibleEdges

\* after a filter or collapse gesture: one edge is visible, one edge between
\* two nodes is not, and one edge leaves a visible node for an id without a node
C5_Witness ==
    /\ budget.views < MaxViewOps
    /\ view.visibleEdges # {}
    /\ \E e \in project.edges \ view.visibleEdges :
          e[1] \in DOMAIN project.nodes /\ e[2] \in DOMAIN project.nodes
    /\ \E e \in project.edges :
          e[1] \in view.visibleNodes /\ e[2] \notin DOMAIN project.nodes

\* C6: the nodes hidden by collapse are exactly the union of the sets
\* reachable by one or more edges from the collapsed ids: none of them is
\* visible, other paths into them notwithstanding, and every other node
\* that passes the filters is visible.
C6_CollapseHidesUnion ==
    /\ HiddenNodeIds(project.edges, collapsedNodeIds) = CollapsedSubtrees
    /\ view.visibleNodes \cap CollapsedSubtrees = {}
    /\ \A n \in DOMAIN project.nodes \ CollapsedSubtrees :
          PassesFilters(n) => n \in view.visibleNodes

\* the shape A -> B -> C, D -> C with A collapsed and D not: B and C hidden
C6_Witness ==
    \E a, b, c, d \in DOMAIN project.nodes :
        /\ Cardinality({a, b, c, d}) = 4
        /\ project.edges = {<<a, b>>, <<b, c>>, <<d, c>>}
        /\ collapsedNodeIds = {a}
        /\ d \in view.visibleNodes
        /\ b \notin view.visibleNodes /\ c \notin view.visibleNodes

\* C7: a node of the project is visible iff its phase is in the phase
\* filter, its category in the category filter and its id outside the set
\* hidden by collapse.
C7_NodeVisibility ==
    /\ view.visibleNodes \subseteq DOMAIN project.nodes
    /\ \A n \in DOMAIN project.nodes :
          n \in view.visibleNodes <=>
              /\ project.nodes[n].phase \in filterPhases
              /\ project.nodes[n].category \in filterCategories
              /\ n \notin CollapsedSubtrees

\* one node fails a filter only, one is hidden only, one is visible
C7_Witness ==
    \E n, m, k \in DOMAIN project.nodes :
        /\ ~PassesFilters(n) /\ n \notin CollapsedSubtrees
        /\ PassesFilters(m) /\ m \in CollapsedSubtrees
        /\ k \in view.visibleNodes

\* C8: for every collapsed id n, descendantCounts[n] is the number of ids a
\* breadth-first traversal from n reaches, n itself not counted, also when n
\* lies on a cycle.
C8_CountExcludesRoot ==
    \A n \in collapsedNodeIds :
        view.descendantCounts[n] = Cardinality(Reach(project.edges, n) \ {n})

\* C23: what collapse hides and the descendant counts follow the full edge
\* set and collapsedIds only: a step that changes neither, a filter gesture
\* in particular, leaves descendantCounts as it was, and every node reachable
\* from a collapsed node over the full edge set is hidden, also when a node
\* on the way to it fails a filter.
C23_CollapseIgnoresFilters ==
    /\ [](\A c \in collapsedNodeIds : \A d \in ReachPlus(project.edges, c) :
              d \notin view.visibleNodes)
    /\ [][(project'.edges = project.edges /\ collapsedNodeIds' = collapsedNodeIds)
              => view'.descendantCounts = view.descendantCounts]_vars

\* c -> m -> d with c collapsed, m excluded by a filter and d passing the
\* filters: d is hidden and counted
C23_Witness ==
    \E c \in collapsedNodeIds, m, d \in DOMAIN project.nodes :
        /\ Cardinality({c, m, d}) = 3
        /\ <<c, m>> \in project.edges /\ <<m, d>> \in project.edges
        /\ <<c, d>> \notin project.edges
        /\ ~PassesFilters(m)
        /\ PassesFilters(d)
        /\ d \notin view.visibleNodes
        /\ view.descendantCounts[c] >= 2

\* C24: a collapsed node that passes both filters and is not reachable from
\* another collapsed node is visible: its own collapse never hides it.
C24_CollapsedRootStaysVisible ==
    \A c \in collapsedNodeIds \cap DOMAIN project.nodes :
        (/\ PassesFilters(c)
         /\ \A o \in collapsedNodeIds \ {c} : c \notin ReachPlus(project.edges, o))
            => c \in view.visibleNodes

\* C29: a collapse toggle changes the membership of one id in collapsedIds
\* and of no other, leaves the nodes and edges of the project and of the
\* backend alone, and toggling the same id twice gives collapsedIds back.
C29_ToggleCollapseIsLocal ==
    /\ [](\A n \in ResolveIds :
              HandleNodeCollapse(HandleNodeCollapse(collapsedNodeIds, n), n)
                  = collapsedNodeIds)
    /\ [][collapsedNodeIds' # collapsedNodeIds
              => /\ \E n \in ResolveIds :
                       /\ (n \in collapsedNodeIds') # (n \in collapsedNodeIds)
                       /\ collapsedNodeIds' \ {n} = collapsedNodeIds \ {n}
                 /\ project' = project
                 /\ srv' = srv]_vars

\* two nodes have been collapsed one after the other, the second toggle
\* leaving the first in place
C29_Witness ==
    /\ budget.views = MaxViewOps - 2
    /\ Cardinality(collapsedNodeIds) = 2
    /\ \A c \in collapsedNodeIds : c \in view.visibleNodes

\* --------------------------------------------- claims under SpecBfs ----
NoDuplicates(s) == \A i, j \in DOMAIN s : s[i] = s[j] => i = j

\* ids not yet added count double: an iteration takes one id off the queue
\* and enqueues only ids it has just added
BfsVariant == 2 * Cardinality(ResolveIds \ bfs.descendants) + Len(bfs.queue)

\* C10: the traversal adds no id twice, and each iteration of its loop
\* lowers a natural-number measure, so that it ends on every graph, cyclic
\* or not.
C10_TraversalTerminates ==
    /\ [](NoDuplicates(bfs.added) /\ Range(bfs.added) = bfs.descendants)
    /\ [][BfsVariant' < BfsVariant]_vars

\* a traversal has ended on a graph with a self-loop and a cycle through the root
C10_Witness ==
    /\ bfsIn.root # NoNode
    /\ bfs.queue = << >>
    /\ bfsIn.root \in bfs.descendants
    /\ \E x \in bfs.descendants : x # bfsIn.root /\ <<x, x>> \in bfsIn.edges

\* -------------------------------------------------------- SpecDelete ----
\* handleDeleteNode on the selected node, which a collapse may have hidden
\* since it was selected, with every await in it resolved: the DELETE, then
\* the selection is cleared, then loadProject(false) replaces the project.
\* collapsedNodeIds is not touched.
HandleDeleteNode(n) ==
    /\ Idle
    /\ budget.edits > 0
    /\ n = selectedNodeId
    /\ n \in DOMAIN project.nodes
    /\ srv' = NodeDelete(srv, n)
    /\ project' = [loaded |-> TRUE, nodes |-> ProjectFetch(srv').nodes,
                   edges |-> ProjectFetch(srv').edges]
    /\ selectedNodeId' = NoNode
    /\ Spend("edits")
    /\ UNCHANGED <<rev, loads, puts, collapsedNodeIds, filterPhases, filterCategories,
                   contextMenu, dragVars, sideVars>>
    /\ Render

\* the page of SpecResolve, with one delete to spend
InitDelete ==
    /\ rev = "part005"
    /\ \E present \in {ResolveIds, ResolveIds \ {LastId}}, E \in EdgeSetsUpTo(MaxEdges) :
          srv = [nodes |-> [i \in present |-> InitNode(i)], edges |-> E]
    /\ loads = EmptyBag
    /\ puts = EmptyBag
    /\ project = [loaded |-> TRUE, nodes |-> srv.nodes, edges |-> srv.edges]
    /\ collapsedNodeIds = {}
    /\ filterPhases = PHASES
    /\ filterCategories = CATEGORIES
    /\ selectedNodeId = NoNode
    /\ contextMenu = NoNode
    /\ view = Resolve(project.nodes, project.edges, collapsedNodeIds, filterPhases,
                      filterCategories)
    /\ LET wc == NodeIdsWithChildren(view.visibleEdges, project.edges, TRUE)
           pn == [n \in view.visibleNodes |-> project.nodes[n]]
           rf == BuildRfNodes(pn, NoNode, collapsedNodeIds, view.descendantCounts, wc)
       IN /\ rfMemo = [fingerprint |-> NodeFingerprint(pn), selectedNodeId |-> NoNode,
                       collapsed |-> collapsedNodeIds, counts |-> view.descendantCounts,
                       withChildren |-> wc, value |-> rf]
          /\ scene = rf
    /\ isDragging = FALSE
    /\ dragNode = NoNode
    /\ intent = NoIntent
    /\ lastSync = "mount"
    /\ budget = [edits |-> 1, drags |-> 0, moves |-> 0, views |-> MaxViewOps]
    /\ bfs = NoBfs
    /\ bfsIn = NoBfsIn
    /\ EditUnused

NextDelete ==
    \/ \E n \in ResolveIds : CollapseButton(n)
    \/ \E n \in ResolveIds : OnNodeClick(n)
    \/ \E n \in ResolveIds : HandleDeleteNode(n)

SpecDelete == InitDelete /\ [][NextDelete]_vars

\* a collapsed id without a node, or without an outgoing edge
Stale(c) == c \notin DOMAIN project.nodes \/ ~HasOutgoing(project.edges, c)

\* C11: a collapsed id that has no node any more, or no outgoing edge any
\* more, gets the count 0 and hides nothing: the resolver yields what it
\* yields without that id in the collapsed set.
C11_StaleCollapsedId ==
    \A c \in collapsedNodeIds :
        Stale(c) =>
            /\ c \in DOMAIN view.descendantCounts
            /\ view.descendantCounts[c] = 0
            /\ HiddenNodeIds(project.edges, collapsedNodeIds)
                   = HiddenNodeIds(project.edges, collapsedNodeIds \ {c})
            /\ view.visibleNodes
                   = Resolve(project.nodes, project.edges, collapsedNodeIds \ {c},
                             filterPhases, filterCategories).visibleNodes

\* after the delete of its only child, a collapsed node is still collapsed,
\* is rendered and has the count 0
C11_Witness ==
    /\ budget.edits = 0
    /\ \E a \in collapsedNodeIds :
          /\ a \in view.visibleNodes
          /\ ~HasOutgoing(project.edges, a)
          /\ view.descendantCounts[a] = 0

\* ------------------------------------------------------- SpecRelabel ----
\* A text is a sequence of characters; " " is the one white-space character.
Chars == {" ", "a"}

RECURSIVE TextsUpTo(_)
TextsUpTo(k) ==
    IF k = 0 THEN {<< >>}
    ELSE LET shorter == TextsUpTo(k - 1)
         IN shorter \cup {Append(t, c) : t \in {u \in shorter : Len(u) = k - 1}, c \in Chars}

Texts == TextsUpTo(MaxLen)

RECURSIVE TrimStart(_)
TrimStart(t) == IF t # << >> /\ Head(t) = " " THEN TrimStart(Tail(t)) ELSE t

RECURSIVE TrimEnd(_)
TrimEnd(t) ==
    IF t # << >> /\ t[Len(t)] = " " THEN TrimEnd(SubSeq(t, 1, Len(t) - 1)) ELSE t

\* String.prototype.trim
Trim(t) == TrimEnd(TrimStart(t))

\* a commit that emits the buffer as typed
RelabelEmittedUntrimmed(ed) ==
    IF Trim(ed.editValue) # ed.label /\ ed.isEditMode THEN <<ed.editValue>> ELSE << >>

\* handleBlur: the calls of data.onLabelChange it makes; the canvas passes
\* onLabelChange only in edit mode
RelabelEmitted(ed) ==
    IF Trim(ed.editValue) # ed.label /\ ed.isEditMode THEN <<Trim(ed.editValue)>> ELSE << >>

\* an Escape that commits like a blur
EscapeEmittedAsBlur(ed) == RelabelEmitted(ed)

\* handleKeyDown, key Escape: no call of data.onLabelChange
EscapeEmitted(ed) == << >>

\* handleDoubleClick
HandleDoubleClick ==
    /\ ~editor.isEditing
    /\ editor' = [editor EXCEPT !.isEditing = TRUE, !.editValue = editor.label]
    /\ out' = [by |-> "doubleClick", relabel |-> << >>, buffer |-> editor.editValue]
    /\ UNCHANGED <<rev, netVars, pageVars, canvasVars, dragVars, budget, bfsVars, handlers, rag, highlight, selectedNodeIds>>

\* onChange of the textarea
OnEditChange(t) ==
    /\ editor.isEditing
    /\ t # editor.editValue
    /\ editor' = [editor EXCEPT !.editValue = t]
    /\ out' = [by |-> "change", relabel |-> << >>, buffer |-> editor.editValue]
    /\ UNCHANGED <<rev, netVars, pageVars, canvasVars, dragVars, budget, bfsVars, handlers, rag, highlight, selectedNodeIds>>

\* handleBlur, from onBlur or from Enter without Shift
HandleBlur(by) ==
    /\ editor.isEditing
    /\ editor' = [editor EXCEPT !.isEditing = FALSE]
    /\ out' = [by |-> by, relabel |-> RelabelEmitted(editor), buffer |-> editor.editValue]
    /\ UNCHANGED <<rev, netVars, pageVars, canvasVars, dragVars, budget, bfsVars, handlers, rag, highlight, selectedNodeIds>>

\* handleKeyDown, key Escape
KeyEscape ==
    /\ editor.isEditing
    /\ editor' = [editor EXCEPT !.isEditing = FALSE, !.editValue = editor.label]
    /\ out' = [by |-> "escape", relabel |-> EscapeEmitted(editor), buffer |-> editor.editValue]
    /\ UNCHANGED <<rev, netVars, pageVars, canvasVars, dragVars, budget, bfsVars, handlers, rag, highlight, selectedNodeIds>>

\* a render of the canvas hands the component another data.label (a
\* loadProject has completed), editing or not
LabelArrives(t) ==
    /\ t # editor.label
    /\ editor' = [editor EXCEPT !.label = t]
    /\ out' = [by |-> "render", relabel |-> << >>, buffer |-> editor.editValue]
    /\ UNCHANGED <<rev, netVars, pageVars, canvasVars, dragVars, budget, bfsVars, handlers, rag, highlight, selectedNodeIds>>

\* setIsEditMode(!isEditMode)
OnToggleEditMode ==
    /\ editor' = [editor EXCEPT !.isEditMode = ~@]
    /\ out' = [by |-> "toggleEditMode", relabel |-> << >>, buffer |-> editor.editValue]
    /\ UNCHANGED <<rev, netVars, pageVars, canvasVars, dragVars, budget, bfsVars, handlers, rag, highlight, selectedNodeIds>>

\* a node component just mounted: useState(false), useState(data.label);
\* isEditMode of the page starts false
InitRelabel ==
    /\ PageUnused
    /\ BfsUnused
    /\ \E t \in Texts :
          editor = [label |-> t, isEditMode |-> FALSE, isEditing |-> FALSE, editValue |-> t]
    /\ out = NoOut
    /\ handlers = << >>
    /\ rag = NoRag
    /\ highlight = NoHighlight
    /\ selectedNodeIds = {}

NextRelabel ==
    \/ HandleDoubleClick
    \/ \E t \in Texts : OnEditChange(t)
    \/ HandleBlur("blur")
    \/ HandleBlur("enter")
    \/ KeyEscape
    \/ \E t \in Texts : LabelArrives(t)
    \/ OnToggleEditMode

SpecRelabel == InitRelabel /\ [][NextRelabel]_vars

\* ------------------------------------------ claims under SpecRelabel ----
Commit == editor.isEditing /\ out'.by \in {"blur", "enter"}

\* C12 as stated: a commit by blur or by Enter emits nothing when the
\* trimmed buffer equals the label, and otherwise emits the trimmed buffer.
C12_RelabelCommit ==
    [][Commit =>
        out'.relabel = IF Trim(editor.editValue) = editor.label THEN << >>
                       ELSE <<Trim(editor.editValue)>>]_vars

\* C12, amended: a commit by blur or by Enter emits nothing when the trimmed
\* buffer equals the label or the page is not in edit mode, and otherwise
\* emits the trimmed buffer, once.
C12_RelabelCommitInEditMode ==
    [][Commit =>
        out'.relabel = IF Trim(editor.editValue) = editor.label \/ ~editor.isEditMode
                       THEN << >>
                       ELSE <<Trim(editor.editValue)>>]_vars

\* Enter has committed a buffer with white space around a new text
C12_Witness ==
    /\ out.by = "enter"
    /\ out.relabel # << >>
    /\ out.relabel # <<out.buffer>>
    /\ out.relabel = <<Trim(out.buffer)>>

\* C13: Escape emits no relabel, ends editing and sets the buffer back to
\* the label the component was last given.
C13_EscapeDiscards ==
    [][out'.by = "escape" =>
        /\ out'.relabel = << >>
        /\ ~editor'.isEditing
        /\ editor'.editValue = editor'.label]_vars

\* Escape in edit mode on a buffer that a commit would have emitted
C13_Witness ==
    /\ out.by = "escape"
    /\ editor.isEditMode
    /\ Trim(out.buffer) # editor.label
    /\ editor.editValue = editor.label

\* -------------------------------------------------------- SpecMutate ----
\* The handlers of the page that make more than one backend call.  Each
\* started handler keeps the calls it has issued, in order, with the state
\* of each: "sent", then "ok" (2xx), "rejected" (another status: the fetch
\* still resolves) or "error" (the fetch rejects).
Call(op, args) == [op |-> op, args |-> args, st |-> "sent", res |-> NoNode]

\* the edges the canvas shows (processEdges), by id
ProcessEdges ==
    {[id |-> 1, source |-> 1, target |-> 2, type |-> "hard", reason |-> ""],
     [id |-> 2, source |-> 2, target |-> 3, type |-> "soft", reason |-> "r"]}

\* what ReactFlow reports for the dragged edge end: either end may be null
Connections == [source : {NoNode, 3}, target : {NoNode, 1}]

\* the ids the backend may assign to a created node
NewNodeIds == {8, 9}

DeleteEdgeCall(old) == Call("DELETE edge", [id |-> old.id])
CreateEdgeCall(source, target, type, reason) ==
    Call("POST edge", [source |-> source, target |-> target, type |-> type,
                       reason |-> reason])

\* a retarget that issues both calls at once
RetargetFirstCallsAtOnce(old, conn) ==
    <<DeleteEdgeCall(old), CreateEdgeCall(conn.source, conn.target, old.type, old.reason)>>

\* handleEdgeUpdate up to its first await
RetargetFirstCalls(old, conn) == <<DeleteEdgeCall(old)>>

\* onEdgeUpdate of the canvas, then handleEdgeUpdate up to its first await
HandleEdgeUpdate(old, conn) ==
    /\ Len(handlers) < MaxHandlers
    /\ old \in ProcessEdges
    /\ handlers' = Append(handlers,
          IF conn.source = NoNode \/ conn.target = NoNode
          THEN [kind |-> "retarget", old |-> old, conn |-> conn, pc |-> "returned",
                calls |-> << >>]
          ELSE [kind |-> "retarget", old |-> old, conn |-> conn, pc |-> "awaitDelete",
                calls |-> RetargetFirstCalls(old, conn)])
    /\ UNCHANGED <<rev, netVars, pageVars, canvasVars, dragVars, budget, bfsVars, editVars, rag, highlight, selectedNodeIds>>

Settle(h, outcome) == [h EXCEPT !.calls[Len(h.calls)].st = outcome]

\* handleEdgeUpdate resumes after an await
EdgeUpdateResumes(i, outcome) ==
    /\ i \in DOMAIN handlers
    /\ handlers[i].kind = "retarget"
    /\ handlers[i].pc \in {"awaitDelete", "awaitCreate"}
    /\ LET h == Settle(handlers[i], outcome)
       IN IF outcome = "error"
          THEN /\ handlers' = [handlers EXCEPT ![i] = [h EXCEPT !.pc = "caught"]]
               /\ UNCHANGED loads
          ELSE IF h.pc = "awaitDelete"
          THEN /\ handlers' = [handlers EXCEPT ![i] =
                      [h EXCEPT !.pc = "awaitCreate",
                                !.calls = Append(h.calls,
                                    CreateEdgeCall(h.conn.source, h.conn.target,
                                                   h.old.type, h.old.reason))]]
               /\ UNCHANGED loads
          ELSE /\ handlers' = [handlers EXCEPT ![i] = [h EXCEPT !.pc = "done"]]
               /\ loads' = LoadProject(loads)
    /\ UNCHANGED <<rev, srv, puts, pageVars, canvasVars, dragVars, budget, bfsVars, editVars, rag, highlight, selectedNodeIds>>

CreateNodeCall(label, sourceNodeId) ==
    Call("POST node", [label |-> label, inheritsFrom |-> sourceNodeId])

\* an auto-connect that does not look at sourceNodeId
AddNodeAtEdgeCallsAlways(sourceNodeId, outcome, newNodeId) ==
    IF outcome = "ok" THEN <<CreateEdgeCall(sourceNodeId, newNodeId, "hard", "")>> ELSE << >>

\* handleAddNodeAt after the node POST has resolved: the auto-connect
AddNodeAtEdgeCalls(sourceNodeId, outcome, newNodeId) ==
    IF outcome = "ok" /\ sourceNodeId # NoNode /\ newNodeId # NoNode
    THEN <<CreateEdgeCall(sourceNodeId, newNodeId, "hard", "")>>
    ELSE << >>

\* confirmInlineInput of the canvas with a non-blank text, then
\* handleAddNodeAt up to its first await
HandleAddNodeAt(label, sourceNodeId) ==
    /\ Len(handlers) < MaxHandlers
    /\ handlers' = Append(handlers,
          [kind |-> "createAt", label |-> label, sourceNodeId |-> sourceNodeId,
           pc |-> "awaitNode", calls |-> <<CreateNodeCall(label, sourceNodeId)>>])
    /\ UNCHANGED <<rev, netVars, pageVars, canvasVars, dragVars, budget, bfsVars, editVars, rag, highlight, selectedNodeIds>>

\* the node POST resolves or rejects; the backend has assigned newNodeId if
\* it answers 2xx
AddNodeAtAfterNode(i, outcome, newNodeId) ==
    /\ i \in DOMAIN handlers
    /\ handlers[i].kind = "createAt"
    /\ handlers[i].pc = "awaitNode"
    /\ LET h == [Settle(handlers[i], outcome) EXCEPT
                    !.calls[1].res = IF outcome = "ok" THEN newNodeId ELSE NoNode]
           more == AddNodeAtEdgeCalls(h.sourceNodeId, outcome, h.calls[1].res)
       IN IF outcome = "error"
          THEN /\ handlers' = [handlers EXCEPT ![i] = [h EXCEPT !.pc = "caught"]]
               /\ UNCHANGED loads
          ELSE IF more # << >>
          THEN /\ handlers' = [handlers EXCEPT ![i] =
                      [h EXCEPT !.pc = "awaitEdge", !.calls = h.calls \o more]]
               /\ UNCHANGED loads
          ELSE /\ handlers' = [handlers EXCEPT ![i] = [h EXCEPT !.pc = "done"]]
               /\ loads' = LoadProject(loads)
    /\ UNCHANGED <<rev, srv, puts, pageVars, canvasVars, dragVars, budget, bfsVars, editVars, rag, highlight, selectedNodeIds>>

\* the edge POST of the auto-connect resolves or rejects
AddNodeAtAfterEdge(i, outcome) ==
    /\ i \in DOMAIN handlers
    /\ handlers[i].kind = "createAt"
    /\ handlers[i].pc = "awaitEdge"
    /\ LET h == Settle(handlers[i], outcome)
       IN IF outcome = "error"
          THEN /\ handlers' = [handlers EXCEPT ![i] = [h EXCEPT !.pc = "caught"]]
               /\ UNCHANGED loads
          ELSE /\ handlers' = [handlers EXCEPT ![i] = [h EXCEPT !.pc = "done"]]
               /\ loads' = LoadProject(loads)
    /\ UNCHANGED <<rev, srv, puts, pageVars, canvasVars, dragVars, budget, bfsVars, editVars, rag, highlight, selectedNodeIds>>

Outcomes == {"ok", "rejected", "error"}

InitMutate ==
    /\ PageUnused
    /\ BfsUnused
    /\ EditUnused

NextMutate ==
    \/ \E old \in ProcessEdges, conn \in Connections : HandleEdgeUpdate(old, conn)
    \/ \E i \in 1..MaxHandlers, outcome \in Outcomes : EdgeUpdateResumes(i, outcome)
    \/ \E sourceNodeId \in {NoNode, 1} : HandleAddNodeAt(<<"a">>, sourceNodeId)
    \/ \E i \in 1..MaxHandlers, outcome \in Outcomes, newNodeId \in NewNodeIds :
          AddNodeAtAfterNode(i, outcome, newNodeId)
    \/ \E i \in 1..MaxHandlers, outcome \in Outcomes : AddNodeAtAfterEdge(i, outcome)

SpecMutate == InitMutate /\ [][NextMutate]_vars

\* ------------------------------------------- claims under SpecMutate ----
Retargets == {i \in DOMAIN handlers : handlers[i].kind = "retarget"}
Creations == {i \in DOMAIN handlers : handlers[i].kind = "createAt"}

\* C14: a retarget issues the delete of the old edge first and the create of
\* the new edge (new ends, old type and reason) only once the delete call has
\* completed, never a create alone or first, and no call at all when the new
\* connection lacks an end.
C14_RetargetDeleteThenCreate ==
    \A i \in Retargets :
        LET h == handlers[i]
            del == [op |-> "DELETE edge", args |-> [id |-> h.old.id]]
            new == [op |-> "POST edge",
                    args |-> [source |-> h.conn.source, target |-> h.conn.target,
                              type |-> h.old.type, reason |-> h.old.reason]]
            Said(c) == [op |-> c.op, args |-> c.args]
        IN /\ Len(h.calls) <= 2
           /\ Len(h.calls) >= 1 => Said(h.calls[1]) = del
           /\ Len(h.calls) = 2 =>
                 Said(h.calls[2]) = new /\ h.calls[1].st \in {"ok", "rejected"}
           /\ (h.conn.source = NoNode \/ h.conn.target = NoNode) => h.calls = << >>
           /\ (h.calls # << >> /\ h.calls[1].st \in {"ok", "rejected"}) => Len(h.calls) = 2

\* one retarget has deleted and created, another one had no target and
\* issued nothing
C14_Witness ==
    /\ \E i \in Retargets :
          /\ handlers[i].pc = "done"
          /\ Len(handlers[i].calls) = 2
          /\ handlers[i].old.type = "soft"
    /\ \E i \in Retargets : handlers[i].pc = "returned"

\* C15: a creation with a source node issues, once the node create has
\* returned 2xx, one edge create from the source to the id the backend
\* assigned, and refreshes only after that call; a creation without a source
\* issues no edge create.
C15_CreateAtConnects ==
    \A i \in Creations :
        LET h == handlers[i]
        IN /\ h.calls[1].op = "POST node"
           /\ h.sourceNodeId = NoNode => Len(h.calls) = 1
           /\ (h.sourceNodeId # NoNode /\ h.calls[1].st = "ok") =>
                 /\ Len(h.calls) = 2
                 /\ h.calls[2].op = "POST edge"
                 /\ h.calls[2].args.source = h.sourceNodeId
                 /\ h.calls[2].args.target = h.calls[1].res
                 /\ h.calls[1].res \in NewNodeIds
                 /\ h.pc = "done" => h.calls[2].st # "sent"
           /\ Len(h.calls) = 2 => h.calls[1].st = "ok"

\* a creation from a source has connected the new node and refreshed, one
\* without a source has refreshed with the node call alone
C15_Witness ==
    /\ \E i \in Creations :
          /\ handlers[i].sourceNodeId # NoNode
          /\ handlers[i].pc = "done"
          /\ Len(handlers[i].calls) = 2
    /\ \E i \in Creations :
          /\ handlers[i].sourceNodeId = NoNode
          /\ handlers[i].pc = "done"
          /\ handlers[i].calls[1].st = "ok"


\* ------------------------------------------------------- SpecAutoRag ----
\* useAutoRag as ProjectMapPage mounts it.  onResultsFound is an inline
\* arrow function of the page, a new function at every render, so the effect
\* of the hook (dependencies selectedNode, projectId, onResultsFound) is
\* re-run by every render of the page: first the cleanup the previous run
\* returned, then the body.
AutoNodes == {1, 2}
AutoTexts == {"a", "b"}

\* selectedNode of the page, as far as the hook reads it
SelectedNode(r) ==
    IF r.selectedNodeId \in DOMAIN r.nodes
    THEN [id |-> r.selectedNodeId, label |-> r.nodes[r.selectedNodeId].label,
          description |-> r.nodes[r.selectedNodeId].description]
    ELSE NoContent

\* a clearTimeout that cancels nothing
ClearTimeoutNothing(timers, ref) == timers

\* clearTimeout(timeoutRef.current)
ClearTimeout(timers, ref) == {t \in timers : t.id # ref}

\* the effect of the hook, run by a render of the page on hook state r
RunEffect(r) ==
    LET cleaned == IF r.cleanup
                   THEN [r EXCEPT !.timers = ClearTimeout(@, r.timeoutRef),
                                  !.cleanup = FALSE]
                   ELSE r
        selectedNode == SelectedNode(cleaned)
        current == selectedNode
    IN IF selectedNode = NoContent THEN cleaned
       ELSE IF cleaned.lastProcessedNode = current THEN cleaned
       ELSE [cleaned EXCEPT
                !.timers = ClearTimeout(@, cleaned.timeoutRef)
                             \cup {[id |-> cleaned.n + 1,
                                    selectedNode |-> selectedNode,
                                    current |-> current]},
                !.timeoutRef = cleaned.n + 1,
                !.n = cleaned.n + 1,
                !.cleanup = TRUE]

AutoRagQuiet ==
    UNCHANGED <<rev, netVars, pageVars, canvasVars, dragVars, budget, bfsVars,
                editVars, handlers, highlight, selectedNodeIds>>

\* the user selects a node, or clears the selection (NoNode)
SelectNode(id) ==
    /\ rag.n < MaxTimers
    /\ id # rag.selectedNodeId
    /\ rag' = RunEffect([rag EXCEPT !.selectedNodeId = id])
    /\ AutoRagQuiet

\* the label or the description of a node changes in the project
EditNode(id, field, text) ==
    /\ rag.n < MaxTimers
    /\ id \in DOMAIN rag.nodes
    /\ rag.nodes[id][field] # text
    /\ rag' = RunEffect([rag EXCEPT !.nodes[id][field] = text])
    /\ AutoRagQuiet

\* the page renders for any other reason
Rerender ==
    /\ rag.n < MaxTimers
    /\ rag' = RunEffect(rag)
    /\ AutoRagQuiet

\* a pending timer fires: the callback up to its await
TimerFires(t) ==
    /\ rag.n < MaxTimers
    /\ t \in rag.timers
    /\ LET fired == [rag EXCEPT !.timers = @ \ {t}]
       IN IF t.selectedNode.id # t.current.id
          THEN rag' = fired
          ELSE LET sent == [fired EXCEPT !.isSearching = TRUE,
                                         !.flying = @ \cup {t}]
               IN rag' = IF rag.isSearching THEN sent ELSE RunEffect(sent)
    /\ AutoRagQuiet

\* an onResultsFound that writes the results onto every node
OnResultsFoundEverywhere(r, nodeId, data) ==
    [r EXCEPT !.nodes = [i \in DOMAIN r.nodes |-> [r.nodes[i] EXCEPT !.ragResults = data]],
              !.called = Append(@, nodeId)]

\* onResultsFound of the page: setProject maps ragResults onto the node
OnResultsFound(r, nodeId, data) ==
    [r EXCEPT !.nodes = [i \in DOMAIN r.nodes |->
                            IF i = nodeId THEN [r.nodes[i] EXCEPT !.ragResults = data]
                            ELSE r.nodes[i]],
              !.called = Append(@, nodeId)]

\* the auto-link call of a fired timer resolves or rejects: the callback
\* from its await to its end
SearchReturns(f, outcome) ==
    /\ rag.n < MaxTimers
    /\ f \in rag.flying
    /\ LET landed == [rag EXCEPT !.flying = @ \ {f}]
           found == IF outcome = "ok"
                    THEN [OnResultsFound(landed, f.selectedNode.id, f.id)
                             EXCEPT !.lastProcessedNode = f.current]
                    ELSE landed
           settled == [found EXCEPT !.isSearching = FALSE]
       IN rag' = IF outcome = "ok" \/ rag.isSearching
                 THEN RunEffect(settled) ELSE settled
    /\ AutoRagQuiet

InitAutoRag ==
    /\ PageUnused
    /\ BfsUnused
    /\ editor = NoEditor
    /\ out = NoOut
    /\ handlers = << >>
    /\ highlight = NoHighlight
    /\ selectedNodeIds = {}
    /\ rag = [NoRag EXCEPT !.nodes = [i \in AutoNodes |->
                              [label |-> "a", description |-> "a", ragResults |-> 0]],
                            !.edges = {<<1, 2>>}]

NextAutoRag ==
    \/ \E id \in AutoNodes \cup {NoNode} : SelectNode(id)
    \/ \E id \in AutoNodes, field \in {"label", "description"}, text \in AutoTexts :
          EditNode(id, field, text)
    \/ Rerender
    \/ \E t \in rag.timers : TimerFires(t)
    \/ \E f \in rag.flying, outcome \in Outcomes : SearchReturns(f, outcome)

SpecAutoRag == InitAutoRag /\ [][NextAutoRag]_vars

\* ------------------------------------------ claims under SpecAutoRag ----
\* C16: when the auto-link call of a fired timer comes back after the
\* selection has moved away from the node that triggered it, its result is
\* dropped: onResultsFound is not called and no node's ragResults change.
C16_StaleResultDiscarded ==
    [][\A f \in rag.flying :
          (f \notin rag'.flying /\ rag.selectedNodeId # f.selectedNode.id)
             => /\ rag'.called = rag.called
                /\ \A i \in DOMAIN rag.nodes :
                      rag'.nodes[i].ragResults = rag.nodes[i].ragResults]_vars

\* C17: at most one debounce timer is pending, it is the one timeoutRef
\* holds, and it belongs to the window of the present selection and content,
\* so a timer of an earlier window is never left to fire.
C17_OneTimerPending ==
    /\ Cardinality(rag.timers) <= 1
    /\ \A t \in rag.timers :
          /\ t.id = rag.timeoutRef
          /\ t.current = SelectedNode(rag)

\* a second window was started while the timer of the first was pending,
\* and only the timer of the second remains
C17_Witness ==
    /\ rag.n >= 2
    /\ \E t \in rag.timers : t.id = rag.n /\ t.current.id = 2
    /\ rag.flying = {}
    /\ rag.called = << >>


\* C27: when an auto-link call comes back, at most the node whose id went
\* out in the request changes, and of that node only ragResults; the other
\* nodes and the edges of the project stay as they were.
C27_ResultGoesToRequestedNode ==
    [][\A f \in rag.flying :
          f \notin rag'.flying
             => /\ DOMAIN rag'.nodes = DOMAIN rag.nodes
                /\ rag'.edges = rag.edges
                /\ \A i \in DOMAIN rag.nodes :
                      \/ rag'.nodes[i] = rag.nodes[i]
                      \/ /\ i = f.selectedNode.id
                         /\ rag'.nodes[i] = [rag.nodes[i] EXCEPT
                                                !.ragResults = rag'.nodes[i].ragResults]
                /\ \/ rag'.called = rag.called
                   \/ rag'.called = Append(rag.called, f.selectedNode.id)]_vars

\* results have been written onto one node and not onto the other, which has
\* meanwhile been edited and selected
C27_Witness ==
    /\ rag.called # << >>
    /\ \E i, j \in DOMAIN rag.nodes :
          /\ rag.nodes[i].ragResults # 0
          /\ rag.nodes[j].ragResults = 0
          /\ rag.nodes[j].label = "b"
          /\ rag.selectedNodeId = j

\* C28: at most one auto-link call is in flight, and no call is issued for
\* an (id, label, description) for which a call is in flight or has
\* succeeded last, whatever renders of the page happen in between.
C28_OneSearchPerContent ==
    /\ [](Cardinality(rag.flying) <= 1)
    /\ [][\A t \in rag'.flying \ rag.flying :
              /\ \A f \in rag.flying : f.current # t.current
              /\ t.current # rag.lastProcessedNode]_vars

\* -------------------------------------------------- SpecResolveAgain ----
\* The body of the visibility useMemo as a call on the objects the page
\* holds: what it returns and what it leaves in each of its five inputs.

\* a resolver that drains the collapsed set while it walks it
ResolveCallDraining(nodes, edges, collapsed, fPhases, fCategories) ==
    [result |-> Resolve(nodes, edges, collapsed, fPhases, fCategories),
     nodes |-> nodes, edges |-> edges, collapsed |-> {},
     fPhases |-> fPhases, fCategories |-> fCategories]

\* The body builds adjacency, hiddenNodeIds, counts, descendants and queue
\* as new objects and reads its inputs with forEach, filter and has only.
ResolveCall(nodes, edges, collapsed, fPhases, fCategories) ==
    [result |-> Resolve(nodes, edges, collapsed, fPhases, fCategories),
     nodes |-> nodes, edges |-> edges, collapsed |-> collapsed,
     fPhases |-> fPhases, fCategories |-> fCategories]

\* before the first run of the memo
NoView == [visibleNodes |-> {}, visibleEdges |-> {}, descendantCounts |-> << >>]

\* the memo body runs on the inputs as they are (a render after loadProject
\* brought the same project in new arrays)
ResolveAgain ==
    /\ budget.views > 0
    /\ LET r == ResolveCall(project.nodes, project.edges, collapsedNodeIds,
                            filterPhases, filterCategories)
       IN /\ view' = r.result
          /\ project' = [project EXCEPT !.nodes = r.nodes, !.edges = r.edges]
          /\ collapsedNodeIds' = r.collapsed
          /\ filterPhases' = r.fPhases
          /\ filterCategories' = r.fCategories
    /\ budget' = [budget EXCEPT !.views = @ - 1]
    /\ UNCHANGED <<rev, netVars, selectedNodeId, contextMenu, rfMemo, scene, lastSync,
                   dragVars, sideVars>>

InitResolveAgain ==
    /\ rev = "part005"
    /\ \E present \in {ResolveIds, ResolveIds \ {LastId}}, E \in EdgeSetsUpTo(MaxEdges) :
          srv = [nodes |-> [i \in present |-> InitNode(i)], edges |-> E]
    /\ loads = EmptyBag
    /\ puts = EmptyBag
    /\ project = [loaded |-> TRUE, nodes |-> srv.nodes, edges |-> srv.edges]
    /\ collapsedNodeIds \in SUBSET {1, 2}
    /\ filterPhases \in {PHASES, {"P1"}}
    /\ filterCategories \in {CATEGORIES, {"C1"}}
    /\ selectedNodeId = NoNode
    /\ contextMenu = NoNode
    /\ view = NoView
    /\ rfMemo = EmptyMemo
    /\ scene = << >>
    /\ isDragging = FALSE
    /\ dragNode = NoNode
    /\ intent = NoIntent
    /\ lastSync = "none"
    /\ budget = [edits |-> 0, drags |-> 0, moves |-> 0, views |-> MaxViewOps]
    /\ BfsUnused
    /\ EditUnused

NextResolveAgain == ResolveAgain

SpecResolveAgain == InitResolveAgain /\ [][NextResolveAgain]_vars

HighlightIds == ResolveIds

HasHighlight(highlightedNodes) == Cardinality(highlightedNodes) > 0

IsHighlighted(id, highlightedNodes) ==
    IF HasHighlight(highlightedNodes) THEN id \in highlightedNodes ELSE TRUE

\* dimming that forgets to ask whether there is a highlight at all
IsDimmedUnguarded(id, highlightedNodes) == ~(id \in highlightedNodes)

IsDimmed(id, highlightedNodes) ==
    HasHighlight(highlightedNodes) /\ ~(id \in highlightedNodes)

\* the two fields of data in rfNodes, for the nodes the canvas is given
HighlightData(processNodes, highlightedNodes) ==
    [id \in processNodes |->
        [isHighlighted |-> IsHighlighted(id, highlightedNodes),
         isDimmed |-> IsDimmed(id, highlightedNodes)]]

HighlightQuiet ==
    UNCHANGED <<rev, netVars, pageVars, canvasVars, dragVars, budget, bfsVars,
                editVars, handlers, rag, selectedNodeIds>>

\* handleGoalSearch, the AI path and onReverseTreeResult
SetHighlightedNodes(nodeIds) ==
    /\ nodeIds # highlight.highlightedNodes
    /\ highlight' = [highlight EXCEPT
                        !.highlightedNodes = nodeIds,
                        !.data = HighlightData(highlight.processNodes, nodeIds)]
    /\ HighlightQuiet

ClearHighlight ==
    /\ highlight.highlightedNodes # {}
    /\ highlight' = [highlight EXCEPT
                        !.highlightedNodes = {},
                        !.data = HighlightData(highlight.processNodes, {})]
    /\ HighlightQuiet

\* the visible nodes change (filters, collapse, reload)
ProcessNodesChange(processNodes) ==
    /\ processNodes # highlight.processNodes
    /\ highlight' = [highlight EXCEPT
                        !.processNodes = processNodes,
                        !.data = HighlightData(processNodes, highlight.highlightedNodes)]
    /\ HighlightQuiet

InitHighlight ==
    /\ PageUnused
    /\ BfsUnused
    /\ editor = NoEditor
    /\ out = NoOut
    /\ handlers = << >>
    /\ rag = NoRag
    /\ selectedNodeIds = {}
    /\ highlight = [highlightedNodes |-> {}, processNodes |-> HighlightIds,
                    data |-> HighlightData(HighlightIds, {})]

NextHighlight ==
    \/ \E nodeIds \in SUBSET HighlightIds : SetHighlightedNodes(nodeIds)
    \/ ClearHighlight
    \/ \E processNodes \in SUBSET HighlightIds : ProcessNodesChange(processNodes)

SpecHighlight == InitHighlight /\ [][NextHighlight]_vars

\* --------------------------------------- claims under SpecHighlight ----
\* C20: of every rendered node isDimmed is the negation of isHighlighted;
\* with an empty highlight set every node is highlighted and none dimmed,
\* with a non-empty one a node is highlighted iff its id is in the set.
C20_DimmedIsNotHighlighted ==
    \A id \in DOMAIN highlight.data :
        LET d == highlight.data[id]
        IN /\ d.isDimmed = ~d.isHighlighted
           /\ highlight.highlightedNodes = {} => d.isHighlighted /\ ~d.isDimmed
           /\ highlight.highlightedNodes # {}
                 => /\ d.isHighlighted <=> id \in highlight.highlightedNodes
                    /\ d.isDimmed <=> id \notin highlight.highlightedNodes

\* a highlight is set that holds some of the rendered nodes and a node that
\* is not rendered: the rendered ones in it are highlighted, the others dimmed
C20_Witness ==
    /\ highlight.highlightedNodes # {}
    /\ \E id \in highlight.highlightedNodes : id \notin highlight.processNodes
    /\ \E id \in DOMAIN highlight.data : highlight.data[id].isHighlighted
    /\ \E id \in DOMAIN highlight.data : highlight.data[id].isDimmed


\* ---------------------------------------------------- SpecMenuDelete ----
\* The delete entry of the node menu of part_005.  ReactFlow reports the
\* selection of the canvas through onSelectionChange, which the page stores
\* in selectedNodeIds; opening the node menu sets selectedNodeId only.

\* onSelectionChange={(ids) => setSelectedNodeIds(new Set(ids))}
OnSelectionChange(ids) ==
    /\ Idle
    /\ ids \subseteq DOMAIN scene
    /\ ids # selectedNodeIds
    /\ selectedNodeIds' = ids
    /\ UNCHANGED <<rev, netVars, pageVars, dragVars, budget, bfsVars, editVars,
                   handlers, rag, highlight>>
    /\ Render

\* idsToDelete of handleDeleteNode
IdsToDelete(ids, id) ==
    IF Cardinality(ids) > 0 THEN ids
    ELSE IF id # NoNode THEN {id} ELSE {}

RECURSIVE NodesDelete(_, _)
NodesDelete(store, ids) ==
    IF ids = {} THEN store
    ELSE LET n == CHOOSE i \in ids : TRUE
         IN NodesDelete(NodeDelete(store, n), ids \ {n})

\* the delete entry of the node menu: handleDeleteNode(), with every await
\* in it resolved, and handleCloseContextMenu().  The DELETE calls issued
\* are recorded with the node the menu was opened on.
MenuDelete ==
    /\ project.loaded /\ ~isDragging
    /\ contextMenu # NoNode
    /\ LET idsToDelete == IdsToDelete(selectedNodeIds, selectedNodeId)
       IN /\ handlers' = Append(handlers, [kind |-> "delete", targetId |-> contextMenu,
                                            ids |-> idsToDelete])
          /\ IF idsToDelete = {}
             THEN UNCHANGED <<srv, project, selectedNodeId, selectedNodeIds>>
             ELSE /\ srv' = NodesDelete(srv, idsToDelete)
                  /\ project' = [loaded |-> TRUE, nodes |-> ProjectFetch(srv').nodes,
                                 edges |-> ProjectFetch(srv').edges]
                  /\ selectedNodeId' = NoNode
                  /\ selectedNodeIds' = {}
    /\ contextMenu' = NoNode
    /\ UNCHANGED <<rev, loads, puts, collapsedNodeIds, filterPhases, filterCategories,
                   dragVars, budget, bfsVars, editVars, rag, highlight>>
    /\ Render

\* the page with its project loaded and rendered, nothing selected
InitMenuDelete ==
    /\ rev = "part005"
    /\ srv = [nodes |-> [i \in ResolveIds |-> InitNode(i)], edges |-> {<<1, 2>>}]
    /\ loads = EmptyBag
    /\ puts = EmptyBag
    /\ project = [loaded |-> TRUE, nodes |-> srv.nodes, edges |-> srv.edges]
    /\ collapsedNodeIds = {}
    /\ filterPhases = PHASES
    /\ filterCategories = CATEGORIES
    /\ selectedNodeId = NoNode
    /\ contextMenu = NoNode
    /\ view = Resolve(project.nodes, project.edges, collapsedNodeIds, filterPhases,
                      filterCategories)
    /\ LET wc == NodeIdsWithChildren(view.visibleEdges, project.edges, TRUE)
           pn == [n \in view.visibleNodes |-> project.nodes[n]]
           rf == BuildRfNodes(pn, NoNode, collapsedNodeIds, view.descendantCounts, wc)
       IN /\ rfMemo = [fingerprint |-> NodeFingerprint(pn), selectedNodeId |-> NoNode,
                       collapsed |-> collapsedNodeIds, counts |-> view.descendantCounts,
                       withChildren |-> wc, value |-> rf]
          /\ scene = rf
    /\ isDragging = FALSE
    /\ dragNode = NoNode
    /\ intent = NoIntent
    /\ lastSync = "mount"
    /\ budget = [edits |-> 0, drags |-> 0, moves |-> 0, views |-> MaxViewOps]
    /\ BfsUnused
    /\ EditUnused

NextMenuDelete ==
    \/ \E ids \in SUBSET ResolveIds : OnSelectionChange(ids)
    \/ \E n \in ResolveIds : OnNodeClick(n)
    \/ \E n \in ResolveIds : HandleNodeContextMenu(n)
    \/ HandleCloseContextMenu
    \/ MenuDelete

SpecMenuDelete == InitMenuDelete /\ [][NextMenuDelete]_vars

====
